---- MODULE Spec2Model ----
(***************************************************************************)
(* PulseControlInterface (src/pulses/PulseControlInterface.py): the        *)
(* pulse-group compiler of qupulse.  The model follows one interface       *)
(* object through calls of create_pulse_group: the branching check, the    *)
(* empty-block return, and the register-and-encode loop with its calls of  *)
(* create_waveform_struct and of the registration callback.                *)
(*                                                                         *)
(* Times are exact rationals: duration and sample_rate are integers,       *)
(* time_scaling is a pair <<numerator, denominator>>.  The binary floating *)
(* point rounding of duration * time_scaling * sample_rate is not modelled.*)
(***************************************************************************)
EXTENDS Integers, Sequences, FiniteSets, TLC

(* ------------------------------ bounds --------------------------------- *)
MaxLen == 3

MaxLevel == 2

MaxId == 2

(* ------------------------------ inputs --------------------------------- *)
\* A waveform value: constant amplitude `level` over `duration` time units.
\* Two waveforms are equal (and hash equally) iff both fields agree.
Durations == {1, 2}

WaveformSet == [level : 1..MaxLevel, duration : Durations]

EXECInstruction(w) == [type |-> "EXEC", waveform |-> w]

CJMPInstruction == [type |-> "CJMP"]

InstructionSet == {EXECInstruction(w) : w \in WaveformSet} \cup {CJMPInstruction}

Blocks == UNION {[1..n -> InstructionSet] : n \in 0..MaxLen}

Names == {"pg_a", "pg_b"}

SampleRates == {500, 1500}

TimeScalings == {<<1, 1000>>, <<1, 500>>}

HardwareIds == 1..MaxId

(* --------------------------- pure helpers ------------------------------ *)
RECURSIVE SumSeq(_)
SumSeq(s) == IF s = <<>> THEN 0 ELSE Head(s) + SumSeq(Tail(s))

Reverse(s) == [i \in 1..Len(s) |-> s[Len(s) + 1 - i]]

\* hash(waveform): equal waveforms hash equally
WaveformHash(w) == w.level * 16 + w.duration

\* __get_waveform_name: 'wf_{}'.format(hash(waveform))
get_waveform_name(w) == "wf_" \o ToString(WaveformHash(w))

\* numpy.linspace(0, stop, num): num evenly spaced points over [0, stop],
\* each point a rational <<numerator, denominator>>
linspace(stop, num) ==
    [i \in 1..num |-> IF num = 1 THEN <<0, 1>> ELSE <<(i - 1) * stop, num - 1>>]

\* Waveform.sample(sample_times): one amplitude per time point
sample(w, sample_times) == [i \in 1..Len(sample_times) |-> w.level]

\* numpy.zeros_like(a)
zeros_like(a) == [i \in 1..Len(a) |-> 0]

sample_count_ceil(duration, scaling, rate) ==
    ((duration * scaling[1] * rate + scaling[2] - 1) \div scaling[2]) + 1

\* floor(waveform.duration * self.__time_scaling * self.__sample_rate) + 1
sample_count(duration, scaling, rate) ==
    ((duration * scaling[1] * rate) \div scaling[2]) + 1

\* create_waveform_struct(waveform, name) of an interface with the given
\* time scaling and sample rate
create_waveform_struct(w, nm, scaling, rate) ==
    LET sample_times == linspace(w.duration, sample_count(w.duration, scaling, rate))
        sampled_waveform == sample(w, sample_times)
    IN  [name |-> nm,
         data |-> [wf |-> sampled_waveform,
                   marker |-> zeros_like(sampled_waveform),
                   clk |-> rate]]

IsEXEC(instruction) == instruction.type = "EXEC"

FirstIsEXEC(b) == Len(b) = 0 \/ IsEXEC(b[1])

\* all(map(lambda x: isinstance(x, EXECInstruction), block.instructions))
AllEXEC(b) == \A i \in 1..Len(b) : IsEXEC(b[i])

WaveformsReversed(b) == Reverse([i \in 1..Len(b) |-> b[i].waveform])

\* [instruction.waveform for instruction in block.instructions]
WaveformsOf(b) == [i \in 1..Len(b) |-> b[i].waveform]

EmptyDict == [w \in {} |-> 0]

DictSet(d, k, v) == [x \in (DOMAIN d) \cup {k} |-> IF x = k THEN v ELSE d[x]]

AlwaysRegister(w, registered) == TRUE

\* waveform not in registered_waveforms
NotRegistered(w, registered) == w \notin DOMAIN registered

Unbound == [kind |-> "unbound"]

\* dict(pulses=[], nrep=[], name=name, chan=1, ctrl='notrig')
NewPulseGroup(nm) ==
    [kind |-> "dict", pulses |-> <<>>, nrep |-> <<>>, name |-> nm,
     chan |-> 1, ctrl |-> "notrig"]

AppendAlways(pg, id) ==
    [pg EXCEPT !.pulses = Append(@, id), !.nrep = Append(@, 1)]

MergeNoCount(pg, id) ==
    IF pg.pulses # <<>> /\ pg.pulses[Len(pg.pulses)] = id
    THEN pg
    ELSE [pg EXCEPT !.pulses = Append(@, id), !.nrep = Append(@, 1)]

\* the run-length step: increment the last repeat count when the last
\* emitted id equals the current one, else append a new entry
EncodeStep(pg, id) ==
    IF pg.pulses # <<>> /\ pg.pulses[Len(pg.pulses)] = id
    THEN [pg EXCEPT !.nrep[Len(pg.nrep)] = @ + 1]
    ELSE [pg EXCEPT !.pulses = Append(@, id), !.nrep = Append(@, 1)]

(* ------------------------------- state --------------------------------- *)
VARIABLES
    sample_rate,            \* self.__sample_rate
    time_scaling,           \* self.__time_scaling
    pc,                     \* position of the current create_pulse_group call
    block,                  \* argument block.instructions
    name_arg,               \* the name argument as passed by the caller
    name,                   \* the local `name` (rebound at registration)
    waveforms,              \* local list
    pulse_group,            \* local dict
    registered_waveforms,   \* local dict waveform -> id
    idx,                    \* position of the for loop in waveforms
    retval,                 \* what the call returned
    exception,              \* what the call raised
    calls                   \* invocations of the registration callback in this call

vars == <<sample_rate, time_scaling, pc, block, name_arg, name, waveforms,
          pulse_group, registered_waveforms, idx, retval, exception, calls>>

NoReturn == [kind |-> "none"]

Finished == {"returned", "raised"}

Init ==
    /\ sample_rate \in SampleRates
    /\ time_scaling \in TimeScalings
    /\ pc = "idle"
    /\ block = <<>>
    /\ name_arg = ""
    /\ name = ""
    /\ waveforms = <<>>
    /\ pulse_group = Unbound
    /\ registered_waveforms = EmptyDict
    /\ idx = 1
    /\ retval = NoReturn
    /\ exception = "none"
    /\ calls = <<>>

(* ------------------------------ actions -------------------------------- *)
\* a caller invokes create_pulse_group(block, name)
Enter ==
    /\ pc = "idle"
    /\ \E b \in Blocks, nm \in Names :
          /\ block' = b
          /\ name_arg' = nm
          /\ name' = nm
    /\ pc' = "check"
    /\ waveforms' = <<>>
    /\ pulse_group' = Unbound
    /\ registered_waveforms' = EmptyDict
    /\ idx' = 1
    /\ retval' = NoReturn
    /\ exception' = "none"
    /\ calls' = <<>>
    /\ UNCHANGED <<sample_rate, time_scaling>>

\* the branching check
CheckBranching ==
    /\ pc = "check"
    /\ IF AllEXEC(block)
       THEN /\ pc' = "collect"
            /\ UNCHANGED exception
       ELSE /\ pc' = "raised"
            /\ exception' = "branching"
    /\ UNCHANGED <<sample_rate, time_scaling, block, name_arg, name, waveforms,
                   pulse_group, registered_waveforms, idx, retval, calls>>

\* collect the waveforms; an empty list returns ""
Collect ==
    /\ pc = "collect"
    /\ waveforms' = WaveformsOf(block)
    /\ IF WaveformsOf(block) = <<>>
       THEN /\ pc' = "returned"
            /\ retval' = [kind |-> "str", value |-> ""]
       ELSE /\ pc' = "setup"
            /\ UNCHANGED retval
    /\ UNCHANGED <<sample_rate, time_scaling, block, name_arg, name,
                   pulse_group, registered_waveforms, idx, exception, calls>>

\* pulse_group = dict(...); registered_waveforms = dict()
Setup ==
    /\ pc = "setup"
    /\ pulse_group' = NewPulseGroup(name)
    /\ registered_waveforms' = EmptyDict
    /\ idx' = 1
    /\ pc' = "loop"
    /\ UNCHANGED <<sample_rate, time_scaling, block, name_arg, name, waveforms,
                   retval, exception, calls>>

SkipOnCallbackException(i) ==
    [pc |-> "loop", exception |-> "none", idx |-> i + 1]

\* an exception of the callback is not caught inside create_pulse_group:
\* it leaves the loop at iteration i and ends the call
OnCallbackException(i) ==
    [pc |-> "raised", exception |-> "callback", idx |-> i]

\* loop head and registration of waveforms[idx] when it is not registered;
\* the callback returns some id or raises
Register ==
    /\ pc = "loop"
    /\ idx <= Len(waveforms)
    /\ LET waveform == waveforms[idx] IN
       IF NotRegistered(waveform, registered_waveforms)
       THEN LET nm == get_waveform_name(waveform)
                waveform_struct ==
                    create_waveform_struct(waveform, nm, time_scaling, sample_rate)
            IN  /\ name' = nm
                /\ \/ \E id \in HardwareIds :
                         /\ calls' = Append(calls, [waveform |-> waveform,
                                                    struct |-> waveform_struct,
                                                    ok |-> TRUE, id |-> id])
                         /\ registered_waveforms' =
                                DictSet(registered_waveforms, waveform, id)
                         /\ pc' = "emit"
                         /\ UNCHANGED <<exception, idx>>
                   \/ /\ calls' = Append(calls, [waveform |-> waveform,
                                                 struct |-> waveform_struct,
                                                 ok |-> FALSE, id |-> 0])
                      /\ pc' = OnCallbackException(idx).pc
                      /\ exception' = OnCallbackException(idx).exception
                      /\ idx' = OnCallbackException(idx).idx
                      /\ UNCHANGED registered_waveforms
       ELSE /\ pc' = "emit"
            /\ UNCHANGED <<name, calls, registered_waveforms, exception, idx>>
    /\ UNCHANGED <<sample_rate, time_scaling, block, name_arg, waveforms,
                   pulse_group, retval>>

\* merge into the last entry or append a new one
Emit ==
    /\ pc = "emit"
    /\ pulse_group' = EncodeStep(pulse_group, registered_waveforms[waveforms[idx]])
    /\ idx' = idx + 1
    /\ pc' = "loop"
    /\ UNCHANGED <<sample_rate, time_scaling, block, name_arg, name, waveforms,
                   registered_waveforms, retval, exception, calls>>

\* return pulse_group
Return ==
    /\ pc = "loop"
    /\ idx > Len(waveforms)
    /\ retval' = pulse_group
    /\ pc' = "returned"
    /\ UNCHANGED <<sample_rate, time_scaling, block, name_arg, name, waveforms,
                   pulse_group, registered_waveforms, idx, exception, calls>>

\* the caller has taken the result or the exception; the frame of the call
\* is gone and the interface can be called again
Leave ==
    /\ pc \in Finished
    /\ pc' = "idle"
    /\ block' = <<>>
    /\ name_arg' = ""
    /\ name' = ""
    /\ waveforms' = <<>>
    /\ pulse_group' = Unbound
    /\ registered_waveforms' = EmptyDict
    /\ idx' = 1
    /\ retval' = NoReturn
    /\ exception' = "none"
    /\ calls' = <<>>
    /\ UNCHANGED <<sample_rate, time_scaling>>

Next ==
    \/ Enter
    \/ CheckBranching
    \/ Collect
    \/ Setup
    \/ Register
    \/ Emit
    \/ Return
    \/ Leave

Spec == Init /\ [][Next]_vars

(* ------------------- vocabulary of the properties ----------------------- *)
HasNonExec(b) == \E i \in 1..Len(b) : b[i].type # "EXEC"

InstrWaveform(i) == block[i].waveform

DistinctWaveforms == {InstrWaveform(i) : i \in 1..Len(block)}

\* positions of the block at which a waveform value occurs for the first time
FirstPositions ==
    {i \in 1..Len(block) : \A j \in 1..(i - 1) : InstrWaveform(j) # InstrWaveform(i)}

\* the k-th smallest element of a finite set of integers
RECURSIVE Nth(_, _)
Nth(S, k) ==
    LET m == CHOOSE x \in S : \A y \in S : x <= y
    IN  IF k = 1 THEN m ELSE Nth(S \ {m}, k - 1)

\* the distinct waveforms of the block in order of first occurrence
FirstOccurrenceOrder ==
    [k \in 1..Cardinality(FirstPositions) |-> InstrWaveform(Nth(FirstPositions, k))]

CallWaveforms == [i \in 1..Len(calls) |-> calls[i].waveform]

IsPrefix(s, t) == Len(s) <= Len(t) /\ \A i \in 1..Len(s) : s[i] = t[i]

HasId(w) == \E i \in 1..Len(calls) : calls[i].waveform = w /\ calls[i].ok

\* the id the callback returned for waveform w in this call
IdOf(w) ==
    LET i == CHOOSE i \in 1..Len(calls) : calls[i].waveform = w /\ calls[i].ok
    IN  calls[i].id

RECURSIVE Expand(_, _)
Expand(pulses, nrep) ==
    IF pulses = <<>> THEN <<>>
    ELSE [i \in 1..Head(nrep) |-> Head(pulses)] \o Expand(Tail(pulses), Tail(nrep))

\* the entry of nrep that covers instruction i
RECURSIVE EntryOf(_, _)
EntryOf(nrep, i) ==
    IF Len(nrep) <= 1 \/ i <= Head(nrep) THEN 1
    ELSE 1 + EntryOf(Tail(nrep), i - Head(nrep))

GroupReturned == pc = "returned" /\ retval.kind = "dict"

WaveformChanges == {i \in 1..(Len(block) - 1) : InstrWaveform(i + 1) # InstrWaveform(i)}

IdChanges ==
    {i \in 1..(Len(block) - 1) : IdOf(InstrWaveform(i + 1)) # IdOf(InstrWaveform(i))}

InjectiveIds ==
    \A i, j \in 1..Len(calls) : calls[i].id = calls[j].id => i = j

(* ------------------------------ properties ------------------------------ *)

\* C1: every block of execute-waveform instructions only (the empty block
\* included) compiles without the branching error to a pulse group with
\* len(pulses) = len(nrep) and sum(nrep) = number of instructions; during the
\* scan, after k instructions, len(pulses) = len(nrep), every nrep entry is
\* at least 1 and sum(nrep) = k.
C1_ExecOnlyBlockCompiles ==
    /\ (pc \in Finished /\ ~HasNonExec(block)) => exception # "branching"
    /\ (pc = "returned" /\ ~HasNonExec(block)) =>
          /\ retval.kind = "dict"
          /\ Len(retval.pulses) = Len(retval.nrep)
          /\ SumSeq(retval.nrep) = Len(block)
    /\ pc \in {"loop", "emit"} =>
          /\ Len(pulse_group.pulses) = Len(pulse_group.nrep)
          /\ \A j \in 1..Len(pulse_group.nrep) : pulse_group.nrep[j] >= 1
          /\ SumSeq(pulse_group.nrep) = idx - 1

\* C2: a block with an instruction that is not execute-waveform, at any
\* position, ends with the branching error, never reaches the scan, and the
\* registration callback is not invoked for any of its waveforms.
C2_BranchingRejectedBeforeRegistration ==
    HasNonExec(block) =>
        /\ pc \in {"check", "raised"}
        /\ calls = <<>>
        /\ retval = NoReturn
        /\ pc = "raised" => exception = "branching"

C2_Witness_NonExecLast ==
    /\ pc = "raised"
    /\ exception = "branching"
    /\ Len(block) = 3
    /\ block[1].type = "EXEC"
    /\ block[2].type = "EXEC"
    /\ block[3].type # "EXEC"

\* C3: within one call the callback is never invoked twice for the same
\* waveform value, and when the call returns it has been invoked exactly once
\* for each distinct waveform value of the block, adjacent or not.
C3_RegisteredOncePerDistinctWaveform ==
    /\ \A i, j \in 1..Len(calls) : calls[i].waveform = calls[j].waveform => i = j
    /\ pc = "returned" =>
          /\ {calls[i].waveform : i \in 1..Len(calls)} = DistinctWaveforms
          /\ Len(calls) = Cardinality(DistinctWaveforms)

C3_Witness_NonAdjacentReuse ==
    /\ pc = "returned"
    /\ Len(block) = 3
    /\ InstrWaveform(1) = InstrWaveform(3)
    /\ InstrWaveform(1) # InstrWaveform(2)
    /\ Len(calls) = 2

\* C4: the empty block returns a well-formed pulse group: pulses = [],
\* nrep = [], the name argument, chan = 1, ctrl = 'notrig'; no callback.
C4_EmptyBlockGivesEmptyGroup ==
    (pc = "returned" /\ Len(block) = 0) =>
        /\ retval.kind = "dict"
        /\ retval.pulses = <<>>
        /\ retval.nrep = <<>>
        /\ retval.name = name_arg
        /\ retval.chan = 1
        /\ retval.ctrl = "notrig"
        /\ calls = <<>>

\* C5 as stated: whatever ids the callback returns, instructions i and i+1
\* share an entry iff their waveforms are value-equal, and the number of
\* entries is 1 + the number of positions where the waveform changes.
C5_MergeFollowsWaveformEquality ==
    GroupReturned =>
        /\ Len(retval.pulses) = 1 + Cardinality(WaveformChanges)
        /\ \A i \in 1..(Len(block) - 1) :
              (EntryOf(retval.nrep, i) = EntryOf(retval.nrep, i + 1))
                  <=> (InstrWaveform(i) = InstrWaveform(i + 1))

\* C5 amended: merging follows equality of the ids the callback assigned:
\* instructions i and i+1 of a non-empty block share an entry iff the ids of
\* their waveforms are equal, and the number of entries is 1 + the number of
\* positions where the id changes; when the callback gives distinct ids to
\* distinct waveforms this is waveform value-equality.
C5_MergeFollowsIdEquality ==
    GroupReturned =>
        /\ Len(retval.pulses) = 1 + Cardinality(IdChanges)
        /\ \A i \in 1..(Len(block) - 1) :
              (EntryOf(retval.nrep, i) = EntryOf(retval.nrep, i + 1))
                  <=> (IdOf(InstrWaveform(i)) = IdOf(InstrWaveform(i + 1)))
        /\ InjectiveIds =>
              /\ Len(retval.pulses) = 1 + Cardinality(WaveformChanges)
              /\ \A i \in 1..(Len(block) - 1) :
                    (EntryOf(retval.nrep, i) = EntryOf(retval.nrep, i + 1))
                        <=> (InstrWaveform(i) = InstrWaveform(i + 1))

C5_Witness_DistinctWaveformsSameId ==
    /\ GroupReturned
    /\ Len(block) = 3
    /\ InstrWaveform(1) # InstrWaveform(2)
    /\ InstrWaveform(3) = InstrWaveform(2)
    /\ IdOf(InstrWaveform(1)) = IdOf(InstrWaveform(2))
    /\ retval.nrep = <<3>>

\* C6: a returned pulse group decodes to the executed sequence: pulses[j]
\* repeated nrep[j] times, in order, is the sequence of the ids the callback
\* assigned to the waveforms of instructions 1..n.
C6_GroupDecodesToExecutedIds ==
    GroupReturned =>
        Expand(retval.pulses, retval.nrep)
            = [i \in 1..Len(block) |-> IdOf(InstrWaveform(i))]

C6_Witness_ABA ==
    /\ GroupReturned
    /\ Len(block) = 3
    /\ InstrWaveform(1) = InstrWaveform(3)
    /\ InstrWaveform(1) # InstrWaveform(2)
    /\ Len(calls) = 2
    /\ calls[1].id # calls[2].id
    /\ retval.pulses = <<calls[1].id, calls[2].id, calls[1].id>>
    /\ retval.nrep = <<1, 1, 1>>

\* C7: the callback is invoked one waveform at a time in execution order: the
\* invocations so far are a prefix of the distinct waveforms in order of first
\* occurrence, all of them at return; every instruction already emitted into
\* pulses/nrep had its waveform registered before.
C7_RegistrationInExecutionOrder ==
    ~HasNonExec(block) =>
        /\ IsPrefix(CallWaveforms, FirstOccurrenceOrder)
        /\ pc = "returned" => CallWaveforms = FirstOccurrenceOrder
        /\ pc \in {"loop", "emit"} =>
              \A i \in 1..SumSeq(pulse_group.nrep) : HasId(InstrWaveform(i))

C7_Witness_AAB ==
    /\ GroupReturned
    /\ Len(block) = 3
    /\ InstrWaveform(1) = InstrWaveform(2)
    /\ InstrWaveform(2) # InstrWaveform(3)
    /\ CallWaveforms = <<InstrWaveform(1), InstrWaveform(3)>>
    /\ calls[1].id # calls[2].id
    /\ retval.pulses = <<calls[1].id, calls[2].id>>
    /\ retval.nrep = <<2, 1>>

\* C8: a failed invocation of the callback is the last invocation of the
\* call: the call has ended with that failure, nothing was returned, the
\* waveform was not retried and no later waveform was registered.
C8_CallbackFailurePropagates ==
    \A i \in 1..Len(calls) :
        ~calls[i].ok =>
            /\ i = Len(calls)
            /\ pc = "raised"
            /\ exception = "callback"
            /\ retval = NoReturn

C8_Witness_FailureBeforeLaterWaveform ==
    /\ pc = "raised"
    /\ exception = "callback"
    /\ Len(block) = 3
    /\ Len(calls) = 2
    /\ ~calls[2].ok
    /\ InstrWaveform(3) \notin {InstrWaveform(1), InstrWaveform(2)}

\* C9: in every returned pulse group no two consecutive entries of pulses
\* are equal, whatever ids the callback returned.
C9_NoEqualConsecutivePulses ==
    GroupReturned =>
        \A i \in 2..Len(retval.pulses) : retval.pulses[i] # retval.pulses[i - 1]

C9_Witness_SameIdMerged ==
    /\ GroupReturned
    /\ Len(block) = 2
    /\ InstrWaveform(1) # InstrWaveform(2)
    /\ Len(calls) = 2
    /\ calls[1].id = calls[2].id
    /\ retval.pulses = <<calls[1].id>>

\* C10: every waveform struct handed to the callback has n = floor(d*s*r) + 1
\* samples, that is n - 1 <= d*s*r < n; marker has the same length and is all
\* zero; clk is the sample rate; name is the name it was built with.
C10_WaveformStructShape ==
    /\ \A i \in 1..Len(calls) :
          LET st == calls[i].struct
              n == Len(st.data.wf)
              x == calls[i].waveform.duration * time_scaling[1] * sample_rate
          IN  /\ (n - 1) * time_scaling[2] <= x
              /\ x < n * time_scaling[2]
              /\ Len(st.data.marker) = n
              /\ \A k \in 1..n : st.data.marker[k] = 0
              /\ st.data.clk = sample_rate
    /\ calls # <<>> => calls[Len(calls)].struct.name = name

C10_Witness_IntegralAndFractional ==
    \E i, j \in 1..Len(calls) :
        LET xi == calls[i].waveform.duration * time_scaling[1] * sample_rate
            xj == calls[j].waveform.duration * time_scaling[1] * sample_rate
        IN  /\ xi % time_scaling[2] = 0
            /\ xi >= time_scaling[2]
            /\ Len(calls[i].struct.data.wf) = (xi \div time_scaling[2]) + 1
            /\ xj % time_scaling[2] # 0
            /\ xj > time_scaling[2]
            /\ Len(calls[j].struct.data.wf) = (xj \div time_scaling[2]) + 1
====
